---- MODULE Spec2Model ----
(***************************************************************************)
(* digital_ocean_domain_record: one invocation of the module lists the     *)
(* records of a domain, scans them for the declared record and creates or  *)
(* deletes it.  The provider's record store is the only state that         *)
(* survives an invocation.                                                 *)
(***************************************************************************)
EXTENDS Integers, Sequences, FiniteSets, TLC

\* ---------------------------------------------------------------- bounds
\* longest record list the provider holds before the first invocation
MaxStore == 2
\* invocations per caller
MaxRuns == 2

\* the callers that may run the module (one in Spec, both in SpecConc)
Procs == {1, 2}

\* ------------------------------------------------------- python values
\* None is the empty sequence and any other value v is <<v>>, so that a
\* value and None can be compared.
None == <<>>

Some(v) == <<v>>

\* find_record's "no record" result
False == <<>>

\* bool(v) of a str-or-None value
Truthy(v) == v # None /\ v # Some("")

\* `a in b` for two strings (sequences of characters): substring test
StrIn(a, b) == \E i \in 0..(Len(b) - Len(a)) : SubSeq(b, i + 1, i + Len(a)) = a

present == <<"p", "r", "e", "s", "e", "n", "t">>

absent == <<"a", "b", "s", "e", "n", "t">>

\* choices of the state option
StateChoices == {present, absent}

\* ------------------------------------------------------------- inputs
Base == [type |-> "A", data |-> Some("d1"), name |-> Some("www"),
         priority |-> None, port |-> None, weight |-> None]

\* the declared record and its six neighbours that differ in one field
Tuples == {Base,
           [Base EXCEPT !.type = "MX"],
           [Base EXCEPT !.data = Some("d2")],
           [Base EXCEPT !.name = None],
           [Base EXCEPT !.priority = Some(10)],
           [Base EXCEPT !.port = Some(80)],
           [Base EXCEPT !.weight = Some(5)]}

\* the records a caller declares
Declared == {Base, [Base EXCEPT !.data = Some("d2")], [Base EXCEPT !.name = None]}

Domains == {None, Some(""), Some("example.com")}

MkParams(st, tok, dom, f) ==
    [state |-> st, api_token |-> tok, domain |-> dom, type |-> f.type,
     data |-> f.data, name |-> f.name, priority |-> f.priority,
     port |-> f.port, weight |-> f.weight]

\* module.params after AnsibleModule parsed the arguments
AllParams == {MkParams(st, tok, dom, f) :
                st \in StateChoices, tok \in {None, Some(""), Some("t1")},
                dom \in Domains, f \in Declared}

\* os.environ: None is an unset variable
AllEnviron == [DO_API_TOKEN : {None, Some(""), Some("t2")},
               DO_API_KEY : {None, Some(""), Some("t3")}]

\* callers that pass a token and a domain
GoodParams == {q \in AllParams : q.api_token = Some("t1") /\ q.domain = Some("example.com")}

NoEnviron == {[DO_API_TOKEN |-> None, DO_API_KEY |-> None]}

Rec(id, f) == [id |-> id, type |-> f.type, data |-> f.data, name |-> f.name,
               priority |-> f.priority, port |-> f.port, weight |-> f.weight]

\* record lists of at most MaxStore records over T, the provider's ids in order
InitialStores(T) ==
    UNION {{[i \in 1..n |-> Rec(i, t[i])] : t \in [1..n -> T]} : n \in 0..MaxStore}

VARIABLES store, nextId, pc, params, environ, manager, all_records, record,
          result, calls, runs, repeated, prevOk, serial, dup0

vars == <<store, nextId, pc, params, environ, manager, all_records, record,
          result, calls, runs, repeated, prevOk, serial, dup0>>

\* --------------------------------------------------------- the module
\* api_token = params['api_token'] or environ['DO_API_TOKEN'] or environ['DO_API_KEY']
ApiToken(prm, env) ==
    IF Truthy(prm.api_token) THEN [KeyError |-> None, value |-> prm.api_token]
    ELSE IF env.DO_API_TOKEN = None THEN [KeyError |-> Some("DO_API_TOKEN"), value |-> None]
    ELSE IF Truthy(env.DO_API_TOKEN) THEN [KeyError |-> None, value |-> env.DO_API_TOKEN]
    ELSE IF env.DO_API_KEY = None THEN [KeyError |-> Some("DO_API_KEY"), value |-> None]
    ELSE [KeyError |-> None, value |-> env.DO_API_KEY]

\* a comparison in which an undeclared (None) field never compares equal
RecordEq_noneNeverEqual(r, type, data, name, priority, port, weight) ==
    /\ r.type = type /\ r.data = data /\ data # None
    /\ r.name = name /\ name # None
    /\ r.priority = priority /\ priority # None
    /\ r.port = port /\ port # None
    /\ r.weight = weight /\ weight # None

\* a comparison that leaves the data field out
RecordEq_ignoreData(r, type, data, name, priority, port, weight) ==
    /\ r.type = type
    /\ r.name = name /\ r.priority = priority
    /\ r.port = port /\ r.weight = weight

\* the comparison of find_record's loop
RecordEq(r, type, data, name, priority, port, weight) ==
    /\ r.type = type /\ r.data = data
    /\ r.name = name /\ r.priority = priority
    /\ r.port = port /\ r.weight = weight

\* a scan that keeps the last record that compares equal
find_record_last(records, type, data, name, priority, port, weight) ==
    LET hits == {i \in 1..Len(records) :
                    RecordEq(records[i], type, data, name, priority, port, weight)}
    IN IF hits = {} THEN False
       ELSE Some(records[CHOOSE i \in hits : \A j \in hits : i >= j])

\* the first record of the list that compares equal, or False
find_record(records, type, data, name, priority, port, weight) ==
    LET hits == {i \in 1..Len(records) :
                    RecordEq(records[i], type, data, name, priority, port, weight)}
    IN IF hits = {} THEN False
       ELSE Some(records[CHOOSE i \in hits : \A j \in hits : i <= j])

\* a branch whose first test forgets `and not record`
Branch_noRecordTest(state, rec) ==
    IF StrIn(state, present) THEN "add"
    ELSE IF StrIn(state, absent) /\ rec # False THEN "destroy"
    ELSE "exit"

\* the if / elif of core after find_record
Branch(state, rec) ==
    IF StrIn(state, present) /\ rec = False THEN "add"
    ELSE IF StrIn(state, absent) /\ rec # False THEN "destroy"
    ELSE "exit"

\* a call with the data and name arguments in each other's place
NewRecordCall_swapped(domain, type, data, name, priority, port, weight) ==
    [op |-> "create", domain |-> domain,
     arg |-> <<type, name, data, priority, port, weight>>]

\* the arguments DomainRecord.add hands to manager.new_domain_record
NewRecordCall(domain, type, data, name, priority, port, weight) ==
    [op |-> "create", domain |-> domain,
     arg |-> <<type, data, name, priority, port, weight>>]

\* the arguments DomainRecord.destroy hands to manager.destroy_domain_record
DestroyCall(domain, id) == [op |-> "delete", domain |-> domain, arg |-> <<id>>]

ListCall(domain) == [op |-> "list", domain |-> domain, arg |-> <<>>]

\* a handler that goes back to the call that raised
OnDoError_retry(label) == label

\* main's except clauses: a provider error ends the invocation
OnDoError(label) == "done"

\* module.fail_json(msg=...)
fail_json(msg) == [failed |-> TRUE, changed |-> FALSE, record |-> None,
                   event |-> None, msg |-> Some(msg)]

\* module.exit_json(changed=..., record=... / event=...)
exit_json(changed, rec, event) ==
    [failed |-> FALSE, changed |-> changed, record |-> rec, event |-> event,
     msg |-> None]

NoResult == [failed |-> FALSE, changed |-> FALSE, record |-> None, event |-> None,
             msg |-> None]

\* ------------------------------------------------------- the provider
\* the provider answers a call of a session with an empty token with an
\* authentication error
Authenticated(token) == Truthy(token)

\* the acknowledgement of a deletion
Ack(id) == [status |-> "OK", id |-> id]

\* the record list without the record of the given id
Without(s, id) == SelectSeq(s, LAMBDA r : r.id # id)

HasId(s, id) == \E i \in 1..Len(s) : s[i].id = id

Logged(call, ok) == [op |-> call.op, domain |-> call.domain, arg |-> call.arg, ok |-> ok]

\* no two records of the list agree on all six fields
NoDup(s) ==
    \A i, j \in 1..Len(s) :
        (<<s[i].type, s[i].data, s[i].name, s[i].priority, s[i].port, s[i].weight>>
         = <<s[j].type, s[j].data, s[j].name, s[j].priority, s[j].port, s[j].weight>>)
        => i = j

\* before the first invocation: the provider holds some records of the domain
InitWith(T) ==
    /\ store \in InitialStores(T)
    /\ nextId = Len(store) + 1
    /\ pc = [p \in Procs |-> "idle"]
    /\ params \in [Procs -> {MkParams(present, None, None, Base)}]
    /\ environ \in [Procs -> NoEnviron]
    /\ manager = [p \in Procs |-> None]
    /\ all_records = [p \in Procs |-> <<>>]
    /\ record = [p \in Procs |-> False]
    /\ result = [p \in Procs |-> NoResult]
    /\ calls = [p \in Procs |-> <<>>]
    /\ runs = [p \in Procs |-> 0]
    /\ repeated = [p \in Procs |-> FALSE]
    /\ prevOk = [p \in Procs |-> FALSE]
    /\ serial = TRUE
    /\ dup0 = ~NoDup(store)

\* main() up to the first provider call: the arguments are parsed, core
\* resolves the token, reads the parameters and sets the session up
Start(p, prm, env) ==
    LET tok == ApiToken(prm, env) IN
    /\ runs[p] < MaxRuns
    /\ runs' = [runs EXCEPT ![p] = @ + 1]
    /\ params' = [params EXCEPT ![p] = prm]
    /\ environ' = [environ EXCEPT ![p] = env]
    /\ calls' = [calls EXCEPT ![p] = <<>>]
    /\ all_records' = [all_records EXCEPT ![p] = <<>>]
    /\ record' = [record EXCEPT ![p] = False]
    /\ serial' = (serial /\ \A q \in Procs \ {p} : pc[q] \in {"idle", "done"})
    /\ IF tok.KeyError # None
       THEN /\ result' = [result EXCEPT ![p] = fail_json("Unable to load " \o tok.KeyError[1])]
            /\ manager' = [manager EXCEPT ![p] = None]
            /\ pc' = [pc EXCEPT ![p] = "done"]
       ELSE IF prm.domain = None
       THEN /\ result' = [result EXCEPT ![p] = fail_json("Unable to load domain")]
            /\ manager' = [manager EXCEPT ![p] = None]
            /\ pc' = [pc EXCEPT ![p] = "done"]
       ELSE IF ~Truthy(prm.domain)
       THEN /\ result' = [result EXCEPT ![p] = fail_json("Domain not found")]
            /\ manager' = [manager EXCEPT ![p] = tok.value]
            /\ pc' = [pc EXCEPT ![p] = "done"]
       ELSE /\ result' = [result EXCEPT ![p] = NoResult]
            /\ manager' = [manager EXCEPT ![p] = tok.value]
            /\ pc' = [pc EXCEPT ![p] = "find_record"]
    /\ UNCHANGED <<store, nextId, dup0>>

\* a caller runs the module for the first time
main(p, P, E) ==
    /\ pc[p] = "idle"
    /\ \E prm \in P, env \in E : Start(p, prm, env)
    /\ repeated' = [repeated EXCEPT ![p] = FALSE]
    /\ prevOk' = [prevOk EXCEPT ![p] = FALSE]

\* the caller runs the module again with the same parameters and environment
rerun(p) ==
    /\ pc[p] = "done"
    /\ Start(p, params[p], environ[p])
    /\ repeated' = [repeated EXCEPT ![p] = TRUE]
    /\ prevOk' = [prevOk EXCEPT ![p] = ~result[p].failed]

\* DomainRecord.find_record and the branch of core that follows it
core_find(p) ==
    /\ pc[p] = "find_record"
    /\ \E answer \in BOOLEAN :
        LET ok == answer /\ Authenticated(manager[p])
            q == params[p]
            found == find_record(store, q.type, q.data, q.name, q.priority,
                                 q.port, q.weight)
            to == Branch(q.state, found)
        IN
        /\ calls' = [calls EXCEPT ![p] = Append(@, Logged(ListCall(q.domain[1]), ok))]
        /\ IF ~ok
           THEN /\ result' = [result EXCEPT ![p] = fail_json("DoError")]
                /\ pc' = [pc EXCEPT ![p] = OnDoError("find_record")]
                /\ UNCHANGED <<all_records, record>>
           ELSE /\ all_records' = [all_records EXCEPT ![p] = store]
                /\ record' = [record EXCEPT ![p] = found]
                /\ IF to = "exit"
                   THEN /\ pc' = [pc EXCEPT ![p] = "done"]
                        /\ result' = [result EXCEPT ![p] =
                              IF found = False
                              THEN fail_json("AttributeError")
                              ELSE exit_json(FALSE, found, None)]
                   ELSE /\ pc' = [pc EXCEPT ![p] = to]
                        /\ UNCHANGED result
    /\ UNCHANGED <<store, nextId, params, environ, manager, runs, repeated,
                   prevOk, serial, dup0>>

\* DomainRecord.add and exit_json(changed=True, record=...)
core_add(p) ==
    /\ pc[p] = "add"
    /\ \E answer \in BOOLEAN :
        LET ok == answer /\ Authenticated(manager[p])
            q == params[p]
            call == NewRecordCall(q.domain[1], q.type, q.data, q.name, q.priority,
                                  q.port, q.weight)
            new == [id |-> nextId, type |-> call.arg[1], data |-> call.arg[2],
                    name |-> call.arg[3], priority |-> call.arg[4],
                    port |-> call.arg[5], weight |-> call.arg[6]]
        IN
        /\ calls' = [calls EXCEPT ![p] = Append(@, Logged(call, ok))]
        /\ pc' = [pc EXCEPT ![p] = IF ok THEN "done" ELSE OnDoError("add")]
        /\ IF ~ok
           THEN /\ result' = [result EXCEPT ![p] = fail_json("DoError")]
                /\ UNCHANGED <<store, nextId, record>>
           ELSE /\ store' = Append(store, new)
                /\ nextId' = nextId + 1
                /\ record' = [record EXCEPT ![p] = Some(new)]
                /\ result' = [result EXCEPT ![p] = exit_json(TRUE, Some(new), None)]
    /\ UNCHANGED <<params, environ, manager, all_records, runs, repeated,
                   prevOk, serial, dup0>>

\* DomainRecord.destroy and exit_json(changed=True, event=...)
core_destroy(p) ==
    /\ pc[p] = "destroy"
    /\ \E answer \in BOOLEAN :
        LET q == params[p]
            call == DestroyCall(q.domain[1], record[p][1].id)
            ok == answer /\ Authenticated(manager[p]) /\ HasId(store, call.arg[1])
        IN
        /\ calls' = [calls EXCEPT ![p] = Append(@, Logged(call, ok))]
        /\ pc' = [pc EXCEPT ![p] = IF ok THEN "done" ELSE OnDoError("destroy")]
        /\ IF ~ok
           THEN /\ result' = [result EXCEPT ![p] = fail_json("DoError")]
                /\ UNCHANGED store
           ELSE /\ store' = Without(store, call.arg[1])
                /\ result' = [result EXCEPT ![p] =
                                 exit_json(TRUE, None, Some(Ack(call.arg[1])))]
    /\ UNCHANGED <<nextId, params, environ, manager, all_records, record, runs,
                   repeated, prevOk, serial, dup0>>

Init == InitWith(Tuples)

\* one caller, one invocation after the other
Next ==
    \/ main(1, AllParams, AllEnviron)
    \/ rerun(1)
    \/ core_find(1)
    \/ core_add(1)
    \/ core_destroy(1)

Spec == Init /\ [][Next]_vars

\* two callers whose invocations may overlap
NextConc ==
    \E p \in Procs :
        \/ main(p, GoodParams, NoEnviron)
        \/ rerun(p)
        \/ core_find(p)
        \/ core_add(p)
        \/ core_destroy(p)

\* the provider holds records of the kinds the callers declare
InitConc == InitWith(Declared)

SpecConc == InitConc /\ [][NextConc]_vars

\* ------------------------------------------------------------ properties
\* the record agrees with the request on all six fields
SameTuple(r, q) ==
    <<r.type, r.data, r.name, r.priority, r.port, r.weight>>
    = <<q.type, q.data, q.name, q.priority, q.port, q.weight>>

\* the positions of the listed records that match the request
Matching(s, q) == {i \in 1..Len(s) : SameTuple(s[i], q)}

\* the first matching record in list order
FirstMatching(s, q) == s[CHOOSE i \in Matching(s, q) : \A j \in Matching(s, q) : i <= j]

\* the invocation of caller p has ended
Done(p) == pc[p] = "done"

\* the list call of the invocation returned the record list
Listed(p) == Len(calls[p]) >= 1 /\ calls[p][1].op = "list" /\ calls[p][1].ok

\* the positions of the create and delete calls of the invocation
Mutating(p) == {i \in 1..Len(calls[p]) : calls[p][i].op \in {"create", "delete"}}

\* the positions of the list calls of the invocation
Listing(p) == {i \in 1..Len(calls[p]) : calls[p][i].op = "list"}

\* no parameter or variable holds a non-empty token
NoToken(p) ==
    /\ ~Truthy(params[p].api_token)
    /\ ~Truthy(environ[p].DO_API_TOKEN)
    /\ ~Truthy(environ[p].DO_API_KEY)

\* the token lookup raises no KeyError and the domain is not empty
PassesLocalChecks(p) ==
    /\ \/ Truthy(params[p].api_token)
       \/ /\ environ[p].DO_API_TOKEN # None
          /\ Truthy(environ[p].DO_API_TOKEN) \/ environ[p].DO_API_KEY # None
    /\ Truthy(params[p].domain)

\* C1: state=absent and no listed record matches: no create, no delete, and a
\* success result with changed=false
C1_AbsentNoMatchIsNoOp ==
    (Done(1) /\ params[1].state = absent /\ Listed(1)
        /\ Matching(all_records[1], params[1]) = {})
    => /\ Mutating(1) = {}
       /\ ~result[1].failed
       /\ ~result[1].changed

\* C2: state=present and no listed record matches: the list call is followed by
\* exactly one create call carrying the request's domain and six fields, no
\* delete call; when the create call returns, the result is a success with
\* changed=true and the record the provider created, otherwise a failure
C2_PresentNoMatchCreates ==
    (Done(1) /\ params[1].state = present /\ Listed(1)
        /\ Matching(all_records[1], params[1]) = {})
    => LET q == params[1] IN
       /\ Len(calls[1]) = 2
       /\ calls[1][2].op = "create"
       /\ calls[1][2].domain = q.domain[1]
       /\ calls[1][2].arg = <<q.type, q.data, q.name, q.priority, q.port, q.weight>>
       /\ calls[1][2].ok =>
            /\ result[1] = exit_json(TRUE, Some(store[Len(store)]), None)
            /\ SameTuple(store[Len(store)], q)
            /\ ~HasId(all_records[1], store[Len(store)].id)
       /\ ~calls[1][2].ok => result[1].failed

C2_Witness ==
    /\ Done(1) /\ params[1].state = present /\ Listed(1)
    /\ all_records[1] # <<>>
    /\ Matching(all_records[1], params[1]) = {}
    /\ ~result[1].failed /\ result[1].changed

\* C3: state=present and a listed record matches: only the list call is made,
\* the store is as listed, and the result is a success with changed=false and
\* the first matching record in list order
C3_PresentMatchIsNoOp ==
    (Done(1) /\ params[1].state = present /\ Listed(1)
        /\ Matching(all_records[1], params[1]) # {})
    => /\ Len(calls[1]) = 1
       /\ store = all_records[1]
       /\ result[1] = exit_json(FALSE, Some(FirstMatching(all_records[1], params[1])), None)

C3_Witness ==
    /\ Done(1) /\ params[1].state = present /\ Listed(1)
    /\ Cardinality(Matching(all_records[1], params[1])) >= 2
    /\ ~result[1].failed /\ ~result[1].changed

\* C4: state=absent and a listed record matches: the list call is followed by
\* exactly one delete call whose argument is the id of the first matching
\* record, no create call; when the delete call returns, the result is a
\* success with changed=true and the provider's acknowledgement
C4_AbsentMatchDeletes ==
    (Done(1) /\ params[1].state = absent /\ Listed(1)
        /\ Matching(all_records[1], params[1]) # {})
    => LET first == FirstMatching(all_records[1], params[1]) IN
       /\ Len(calls[1]) = 2
       /\ calls[1][2].op = "delete"
       /\ calls[1][2].domain = params[1].domain[1]
       /\ calls[1][2].arg = <<first.id>>
       /\ calls[1][2].ok =>
            /\ result[1] = exit_json(TRUE, None, Some(Ack(first.id)))
            /\ store = Without(all_records[1], first.id)
       /\ ~calls[1][2].ok => result[1].failed

C4_Witness ==
    /\ Done(1) /\ params[1].state = absent /\ Listed(1)
    /\ Cardinality(Matching(all_records[1], params[1])) >= 2
    /\ ~result[1].failed /\ result[1].changed
    /\ Len(store) = Len(all_records[1]) - 1

\* C5: without a non-empty token in api_token, DO_API_TOKEN or DO_API_KEY the
\* invocation makes no provider call and ends with a failure result
C5_NoTokenNoCall ==
    (runs[1] > 0 /\ NoToken(1))
    => /\ calls[1] = <<>>
       /\ Done(1) => result[1].failed

\* C6: with api_token unset the session uses DO_API_TOKEN when that holds a
\* token, and DO_API_KEY when DO_API_TOKEN is unset; the second case goes on
\* to the provider
C6_TokenFallback ==
    (Done(1) /\ params[1].api_token = None /\ Truthy(params[1].domain))
    => /\ Truthy(environ[1].DO_API_TOKEN) => manager[1] = environ[1].DO_API_TOKEN
       /\ (environ[1].DO_API_TOKEN = None /\ Truthy(environ[1].DO_API_KEY))
            => /\ manager[1] = environ[1].DO_API_KEY
               /\ Len(calls[1]) >= 1

\* C7: an invocation that repeats a successful one with the same request, and
\* whose list call returns, makes no create and no delete call and ends with a
\* success result with changed=false
C7_RepeatIsNoOp ==
    (Done(1) /\ repeated[1] /\ prevOk[1] /\ Listed(1))
    => /\ Mutating(1) = {}
       /\ ~result[1].failed
       /\ ~result[1].changed

\* C8 as stated: at most one mutating call, the list call exactly once on
\* every path, a mutating call only after the list call returned, no call
\* after a provider error
C8_ListExactlyOnce ==
    /\ Cardinality(Mutating(1)) <= 1
    /\ Done(1) => Cardinality(Listing(1)) = 1
    /\ \A i \in Mutating(1) : i = 2 /\ Listed(1)
    /\ \A i \in 1..Len(calls[1]) :
          ~calls[1][i].ok => i = Len(calls[1]) /\ Done(1) /\ result[1].failed

\* C8 amended: at most one mutating call; the list call at most once, and
\* exactly once when the token lookup and the domain check pass, and not at
\* all when they do not; a mutating call only after the list call returned; a
\* provider error ends the invocation with a failure result and no further call
C8_ListOnceAfterLocalChecks ==
    /\ Cardinality(Mutating(1)) <= 1
    /\ Listing(1) \subseteq {1}
    /\ Done(1) => (Cardinality(Listing(1)) = 1 <=> PassesLocalChecks(1))
    /\ ~PassesLocalChecks(1) => calls[1] = <<>>
    /\ \A i \in Mutating(1) : i = 2 /\ Listed(1)
    /\ \A i \in 1..Len(calls[1]) :
          ~calls[1][i].ok => i = Len(calls[1]) /\ Done(1) /\ result[1].failed

C8_Witness ==
    /\ Done(1) /\ Listed(1)
    /\ Len(calls[1]) = 2
    /\ ~calls[1][2].ok
    /\ result[1].failed

\* C9: a series of invocations that never overlap keeps a store without
\* duplicates free of duplicates; two overlapping invocations of one
\* state=present request that both list no match and both create report
\* changed=true and leave two matching records
C9_DuplicatesOnlyByOverlap ==
    /\ (serial /\ ~dup0) => NoDup(store)
    /\ \A p, q \in Procs :
         (/\ p # q /\ Done(p) /\ Done(q)
          /\ params[p] = params[q] /\ params[p].state = present
          /\ Listed(p) /\ Listed(q)
          /\ Matching(all_records[p], params[p]) = {}
          /\ Matching(all_records[q], params[q]) = {}
          /\ Len(calls[p]) = 2 /\ calls[p][2].ok
          /\ Len(calls[q]) = 2 /\ calls[q][2].ok)
         => /\ ~serial
            /\ result[p].changed /\ result[q].changed
            /\ ~result[p].failed /\ ~result[q].failed
            /\ Cardinality(Matching(store, params[p])) >= 2

C9_Witness ==
    /\ ~serial /\ ~dup0
    /\ Done(1) /\ Done(2)
    /\ runs[1] = 1 /\ runs[2] = 1
    /\ params[1] = params[2] /\ params[1].state = present
    /\ Matching(all_records[1], params[1]) = {}
    /\ Matching(all_records[2], params[2]) = {}
    /\ ~result[1].failed /\ result[1].changed
    /\ ~result[2].failed /\ result[2].changed
    /\ Cardinality(Matching(store, params[1])) = 2
    /\ ~NoDup(store)

\* C10: state=present and every listed record differs from the request in
\* some field: the list call is followed by a create call and by no delete;
\* every listed record is still in the store, unchanged and in place, and
\* when the create call returns the store holds exactly one record more, the
\* declared one
C10_NoUpdatePath ==
    (Done(1) /\ params[1].state = present /\ Listed(1)
        /\ all_records[1] # <<>>
        /\ Matching(all_records[1], params[1]) = {})
    => /\ Len(calls[1]) = 2
       /\ calls[1][2].op = "create"
       /\ \A i \in 1..Len(all_records[1]) :
             i <= Len(store) /\ store[i] = all_records[1][i]
       /\ calls[1][2].ok =>
            /\ Len(store) = Len(all_records[1]) + 1
            /\ SameTuple(store[Len(store)], params[1])
       /\ ~calls[1][2].ok => store = all_records[1]

C10_Witness ==
    /\ Done(1) /\ params[1].state = present /\ Listed(1)
    /\ params[1].data = Some("d2")
    /\ \E i \in 1..Len(all_records[1]) :
          /\ all_records[1][i].type = params[1].type
          /\ all_records[1][i].name = params[1].name
          /\ all_records[1][i].data = Some("d1")
          /\ store[i] = all_records[1][i]
    /\ ~result[1].failed /\ result[1].changed
    /\ Len(store) = Len(all_records[1]) + 1
====
